---- MODULE Spec2Model ----
(***************************************************************************)
(* The simulated chat backend of src/services/firebase.ts: one blob in     *)
(* localStorage holding the table of rooms, three asynchronous operations  *)
(* that run their body when their latency timer fires, and the polling     *)
(* subscription.  Timers fire in any order setTimeout allows; the wall     *)
(* clock that stamps rooms and messages moves on its own.  On top of it,   *)
(* two tabs sharing the storage, and the App, Home and ChatRoom components *)
(* that call the backend for the user.                                     *)
(***************************************************************************)
EXTENDS Integers, Sequences, FiniteSets, TLC

VARIABLES blob, disabled, wall, pending, sub, ncalls, wins, sent, unsubscribed,
          last, ui, out

vars == <<blob, disabled, wall, pending, sub, ncalls, wins, sent, unsubscribed,
          last, ui, out>>

\* ------------------------------------------------------------------ bounds

\* The actions the user takes in the interface in a run.
MaxClicks == 3
\* The values of the wall clock (Date.now()): 0..MaxWall.
MaxWall == 1
\* createRoom, checkRoomExists and sendMessage calls made in a run.
MaxCalls == 2

RoomIds == {"r1", "r2"}
Usernames == {"Alice"}
Texts == {"hi"}
\* The values Math.random() contributes to a message identifier.
Randoms == {0, 1}
\* The keys a storage event can carry: the owned key, another key, or none.
STORAGE_KEY == "firechat_rooms"
EventKeys == {STORAGE_KEY, "other_key", "null"}

\* ---------------------------------------------------------------- latencies

\* The setTimeout delays of the three operations, in milliseconds.
CREATE_DELAY == 500
CHECK_DELAY == 300
SEND_DELAY == 100

\* ------------------------------------------------------------ the stored blob

EmptyTable == <<>>

\* localStorage.getItem returns null: nothing was ever stored under the key.
NoBlob == [kind |-> "null", rooms |-> EmptyTable]
\* A stored string that JSON.parse rejects.
CorruptBlob == [kind |-> "garbage", rooms |-> EmptyTable]

\* JSON.stringify(rooms): the string that encodes the table.
Stringify(rooms) == [kind |-> "json", rooms |-> rooms]

\* JSON.parse(stored): the table a string encodes, or a SyntaxError.
Parse(stored) ==
  IF stored.kind = "json"
  THEN [threw |-> FALSE, value |-> stored.rooms]
  ELSE [threw |-> TRUE, value |-> EmptyTable]

\* localStorage.getItem(STORAGE_KEY): throws when the storage is disabled.
GetItem(b, dis) ==
  IF dis THEN [threw |-> TRUE, value |-> NoBlob]
  ELSE [threw |-> FALSE, value |-> b]

\* getRooms without its try/catch: a read error reaches the caller.
getRoomsUncaught(b, dis) ==
  LET got == GetItem(b, dis) IN
  IF got.threw THEN [threw |-> TRUE, rooms |-> EmptyTable]
  ELSE IF got.value.kind = "null" THEN [threw |-> FALSE, rooms |-> EmptyTable]
  ELSE LET parsed == Parse(got.value) IN
       [threw |-> parsed.threw, rooms |-> parsed.value]

\* getRooms: the stored table; {} when nothing is stored and when reading
\* or parsing throws.
getRooms(b, dis) ==
  LET got == GetItem(b, dis) IN
  IF got.threw THEN [threw |-> FALSE, rooms |-> EmptyTable]
  ELSE IF got.value.kind = "null" THEN [threw |-> FALSE, rooms |-> EmptyTable]
  ELSE LET parsed == Parse(got.value) IN
       IF parsed.threw
       THEN [threw |-> FALSE, rooms |-> EmptyTable]
       ELSE [threw |-> FALSE, rooms |-> parsed.value]

\* saveRooms without its try/catch: the storage error reaches the caller.
saveRoomsUncaught(rooms, b, fail) ==
  [blob |-> IF fail THEN b ELSE Stringify(rooms),
   setItems |-> 1, failed |-> fail, alerts |-> 0, threw |-> fail]

\* saveRooms that stores the table under a key nothing reads.
saveRoomsWrongKey(rooms, b, fail) ==
  [blob |-> b, setItems |-> 1, failed |-> fail, alerts |-> IF fail THEN 1 ELSE 0,
   threw |-> FALSE]

\* saveRooms: one setItem; when it throws (fail) the error is caught, the
\* user is alerted and the stored blob stays as it was.
saveRooms(rooms, b, fail) ==
  [blob |-> IF fail THEN b ELSE Stringify(rooms),
   setItems |-> 1, failed |-> fail, alerts |-> IF fail THEN 1 ELSE 0,
   threw |-> FALSE]

\* A path that writes nothing; threw: an error leaves the function.
NoSave(b, threw) ==
  [blob |-> b, setItems |-> 0, failed |-> FALSE, alerts |-> 0, threw |-> threw]

\* ------------------------------------------------------------------- rooms

HasRoom(rooms, r) == r \in DOMAIN rooms

\* rooms[r] = room
SetRoom(rooms, r, room) ==
  [x \in (DOMAIN rooms) \cup {r} |-> IF x = r THEN room ELSE rooms[x]]

\* { createdAt: Date.now(), messages: {} }
NewRoom(t) == [createdAt |-> t, messages |-> <<>>]

\* Date.now().toString(36) + Math.random().toString(36).substr(2)
MessageId(t, rnd) == <<t, rnd>>

\* The two strings of the message in each other's place.
NewMessageSwapped(t, rnd, username, text) ==
  [id |-> MessageId(t, rnd), username |-> text, text |-> username, timestamp |-> t]

NewMessage(t, rnd, username, text) ==
  [id |-> MessageId(t, rnd), username |-> username, text |-> text, timestamp |-> t]

\* The mapping is replaced by one that holds the new message alone.
PutMessageAlone(msgs, m) == <<m>>

\* messages[m.id] = m on an object: a new key is added last, a key already
\* present keeps its place and takes the new value.
PutMessage(msgs, m) ==
  IF \E i \in 1..Len(msgs) : msgs[i].id = m.id
  THEN [i \in 1..Len(msgs) |-> IF msgs[i].id = m.id THEN m ELSE msgs[i]]
  ELSE Append(msgs, m)

\* ----------------------------------------------------------- operation bodies

\* createRoom without its check for an existing room.
createRoomOverwrite(b, dis, roomId, t, fail) ==
  LET read == getRooms(b, dis) IN
  IF read.threw
  THEN [save |-> NoSave(b, TRUE), value |-> FALSE, found |-> FALSE]
  ELSE [save |-> saveRooms(SetRoom(read.rooms, roomId, NewRoom(t)), b, fail),
        value |-> TRUE, found |-> HasRoom(read.rooms, roomId)]

\* The body of createRoom after its latency: what it did to the storage
\* (save), the value it returns and whether it found the room.
createRoom(b, dis, roomId, t, fail) ==
  LET read == getRooms(b, dis) IN
  IF read.threw
  THEN [save |-> NoSave(b, TRUE), value |-> FALSE, found |-> FALSE]
  ELSE IF HasRoom(read.rooms, roomId)
  THEN [save |-> NoSave(b, FALSE), value |-> FALSE, found |-> TRUE]
  ELSE [save |-> saveRooms(SetRoom(read.rooms, roomId, NewRoom(t)), b, fail),
        value |-> TRUE, found |-> FALSE]

checkRoomExists(b, dis, roomId) ==
  LET read == getRooms(b, dis) IN
  [save |-> NoSave(b, read.threw),
   value |-> HasRoom(read.rooms, roomId),
   found |-> HasRoom(read.rooms, roomId)]

\* sendMessage without its early return: a missing room is made on the way.
sendMessageUpsert(b, dis, roomId, username, text, t, rnd, fail) ==
  LET read == getRooms(b, dis)
      m == NewMessage(t, rnd, username, text)
      room == IF HasRoom(read.rooms, roomId) THEN read.rooms[roomId] ELSE NewRoom(t)
      room2 == [room EXCEPT !.messages = PutMessage(room.messages, m)]
  IN [save |-> saveRooms(SetRoom(read.rooms, roomId, room2), b, fail),
      value |-> FALSE, found |-> HasRoom(read.rooms, roomId)]

\* sendMessage with line 76 run on every call: the mapping starts empty.
sendMessageResetsMessages(b, dis, roomId, username, text, t, rnd, fail) ==
  LET read == getRooms(b, dis) IN
  IF read.threw
  THEN [save |-> NoSave(b, TRUE), value |-> FALSE, found |-> FALSE]
  ELSE IF ~HasRoom(read.rooms, roomId)
  THEN [save |-> NoSave(b, FALSE), value |-> FALSE, found |-> FALSE]
  ELSE LET m == NewMessage(t, rnd, username, text)
           room == read.rooms[roomId]
           room2 == [room EXCEPT !.messages = PutMessage(<<>>, m)]
       IN [save |-> saveRooms(SetRoom(read.rooms, roomId, room2), b, fail),
           value |-> FALSE, found |-> TRUE]

sendMessage(b, dis, roomId, username, text, t, rnd, fail) ==
  LET read == getRooms(b, dis) IN
  IF read.threw
  THEN [save |-> NoSave(b, TRUE), value |-> FALSE, found |-> FALSE]
  ELSE IF ~HasRoom(read.rooms, roomId)
  THEN [save |-> NoSave(b, FALSE), value |-> FALSE, found |-> FALSE]
  ELSE LET m == NewMessage(t, rnd, username, text)
           room == read.rooms[roomId]
           room2 == [room EXCEPT !.messages = PutMessage(room.messages, m)]
       IN [save |-> saveRooms(SetRoom(read.rooms, roomId, room2), b, fail),
           value |-> FALSE, found |-> TRUE]

\* -------------------------------------------------------------- subscription

\* messageList.sort((a, b) => a.timestamp - b.timestamp), a stable sort:
\* m goes behind every element whose timestamp is not greater.
InsertByTimestamp(sorted, m) ==
  LET k == Cardinality({i \in 1..Len(sorted) : sorted[i].timestamp <= m.timestamp})
  IN SubSeq(sorted, 1, k) \o <<m>> \o SubSeq(sorted, k + 1, Len(sorted))

\* The list is delivered in the order Object.values gives, unsorted.
Unsorted(list) == list

RECURSIVE SortByTimestamp(_)
SortByTimestamp(list) ==
  IF list = <<>> THEN <<>>
  ELSE InsertByTimestamp(SortByTimestamp(SubSeq(list, 1, Len(list) - 1)),
                         list[Len(list)])

\* No subscribeToMessages call was made yet.
NoSub == [used |-> FALSE, roomId |-> "r1", active |-> FALSE,
          interval |-> FALSE, listening |-> FALSE]

\* The closure state of a fresh subscription: active = true, the interval
\* timer armed, the storage listener added.
NewSub(roomId) == [used |-> TRUE, roomId |-> roomId, active |-> TRUE,
                   interval |-> TRUE, listening |-> TRUE]

\* checkMessages without its else branch: no callback for a missing room.
checkMessagesNoElse(c, b, dis) ==
  IF ~c.active THEN [threw |-> FALSE, calls |-> <<>>]
  ELSE LET read == getRooms(b, dis) IN
       IF read.threw THEN [threw |-> TRUE, calls |-> <<>>]
       ELSE IF HasRoom(read.rooms, c.roomId)
       THEN [threw |-> FALSE,
             calls |-> <<SortByTimestamp(read.rooms[c.roomId].messages)>>]
       ELSE [threw |-> FALSE, calls |-> <<>>]

\* Delivers only what the callback has not received yet.
checkMessagesDiffed(c, b, dis) ==
  IF ~c.active THEN [threw |-> FALSE, calls |-> <<>>]
  ELSE LET read == getRooms(b, dis)
       IN IF read.threw THEN [threw |-> TRUE, calls |-> <<>>]
          ELSE IF HasRoom(read.rooms, c.roomId) /\ ~last.valid
          THEN [threw |-> FALSE,
                calls |-> <<SortByTimestamp(read.rooms[c.roomId].messages)>>]
          ELSE [threw |-> FALSE, calls |-> << <<>> >>]

\* checkMessages of subscription c: the lists it hands to the callback.
checkMessages(c, b, dis) ==
  IF ~c.active THEN [threw |-> FALSE, calls |-> <<>>]
  ELSE LET read == getRooms(b, dis) IN
       IF read.threw THEN [threw |-> TRUE, calls |-> <<>>]
       ELSE IF HasRoom(read.rooms, c.roomId)
       THEN [threw |-> FALSE,
             calls |-> <<SortByTimestamp(read.rooms[c.roomId].messages)>>]
       ELSE [threw |-> FALSE, calls |-> << <<>> >>]

\* A listener that re-checks on every storage event, whatever its key.
handleStorageAnyKey(c, key, b, dis) == checkMessages(c, b, dis)

\* handleStorage(e) of subscription c.
handleStorage(c, key, b, dis) ==
  IF key = STORAGE_KEY
  THEN checkMessages(c, b, dis)
  ELSE [threw |-> FALSE, calls |-> <<>>]

\* An unsubscribe that clears the interval and leaves the flag and the
\* listener as they are.
unsubscribeTimerOnly(c) == [c EXCEPT !.interval = FALSE]

\* The function subscribeToMessages returns.
unsubscribe(c) ==
  [c EXCEPT !.active = FALSE, !.interval = FALSE, !.listening = FALSE]

\* ------------------------------------------------------------------- timers

\* The latencies of createRoom and sendMessage exchanged.
DelaySwapped(op) ==
  CASE op = "createRoom" -> SEND_DELAY
    [] op = "checkRoomExists" -> CHECK_DELAY
    [] op = "sendMessage" -> CREATE_DELAY

\* The setTimeout delay an operation awaits before its body.
Delay(op) ==
  CASE op = "createRoom" -> CREATE_DELAY
    [] op = "checkRoomExists" -> CHECK_DELAY
    [] op = "sendMessage" -> SEND_DELAY

\* setTimeout: a timer fires only after every timer started before it with
\* a delay not longer than its own; p holds the pending calls, oldest first.
CanFire(p, i) == \A j \in 1..(i - 1) : Delay(p[j].op) > Delay(p[i].op)

RemoveAt(p, i) == SubSeq(p, 1, i - 1) \o SubSeq(p, i + 1, Len(p))

\* ------------------------------------------------------------------ the state

\* What a step did, as its caller or the user sees it: the operation or
\* callback source, the value returned, whether an error left it, the
\* setItem calls made, whether setItem threw, the alerts shown, the key of
\* the storage event, and the lists handed to the callback.
Event(kind, roomId, value, save, key, calls) ==
  [kind |-> kind, roomId |-> roomId, value |-> value, threw |-> save.threw,
   setItems |-> save.setItems, failed |-> save.failed, alerts |-> save.alerts,
   key |-> key, calls |-> calls]

Idle == Event("idle", "", FALSE, NoSave(NoBlob, FALSE), "", <<>>)

\* last: the list the callback received most recently, as long as the stored
\* table is the one it was read from, and whether an earlier delivery read
\* that same table.  It is recorded in the runs that start with on set.
NoLast == [on |-> FALSE, valid |-> FALSE, list |-> <<>>, repeated |-> FALSE]

Recording == [NoLast EXCEPT !.on = TRUE]

\* The callback received the lists of calls, in that order.
Delivered(calls) ==
  IF ~last.on \/ calls = <<>> THEN last
  ELSE [on |-> TRUE, valid |-> TRUE, list |-> calls[Len(calls)],
        repeated |-> last.valid]

\* The storage holds b after a step: a changed table outdates last.
Written(b) ==
  IF b = blob THEN last
  ELSE [last EXCEPT !.valid = FALSE, !.list = <<>>, !.repeated = FALSE]

\* The Home component as mounted: its state (loading, error), the locals of
\* the handler that is running (pc, username, joinRoomId, newRoomId, exists,
\* attempts),
\* and what that handler has done so far: the checkRoomExists calls made,
\* the id checked last, the id passed to createRoom, the value createRoom
\* returned, the id passed to onJoinRoom.
HomeInit ==
  [pc |-> "idle", loading |-> FALSE, error |-> "", username |-> "",
   joinRoomId |-> "", newRoomId |-> "", exists |-> FALSE, attempts |-> 0,
   checks |-> 0,
   checked |-> "", created |-> "", success |-> FALSE, joined |-> ""]

\* The App component as mounted: the HOME view, no room.  clicks counts the
\* user's actions, mounts the ChatRoom instances, closed holds the
\* subscriptions of the ChatRoom instances that are gone.
UiInit ==
  [view |-> "HOME", currentRoomId |-> "", username |-> "", sending |-> FALSE,
   clicks |-> 0, mounts |-> 0, closed |-> {}, home |-> HomeInit]

\* The persisted Root Table: the table the stored blob encodes.
RootTable(b) == IF b.kind = "json" THEN b.rooms ELSE EmptyTable

\* What an earlier session left in the storage: room r1, without messages.
EarlierSession == Stringify(SetRoom(EmptyTable, "r1", NewRoom(0)))

\* The storage an earlier session left with both rooms in it.
BothRooms == Stringify(SetRoom(RootTable(EarlierSession), "r2", NewRoom(0)))

InitRest ==
  /\ wall = 0
  /\ pending = <<>>
  /\ sub = NoSub
  /\ ncalls = 0
  /\ wins = [r \in RoomIds |-> 0]
  /\ sent = [r \in RoomIds |-> {}]
  /\ unsubscribed = FALSE
  /\ ui = UiInit
  /\ out = Idle

\* A page load: the storage works, and is empty or holds what an earlier
\* session left.
Init ==
  /\ blob \in {NoBlob, EarlierSession}
  /\ disabled = FALSE
  /\ last = NoLast
  /\ InitRest

\* A page load with a read failure ahead: the stored string is not JSON, or
\* the storage is disabled and every access to it throws.
InitCorrupt ==
  /\ disabled \in BOOLEAN
  /\ blob \in IF disabled THEN {EarlierSession, CorruptBlob} ELSE {CorruptBlob}
  /\ last = NoLast
  /\ InitRest

\* An operation is called: its promise is pending until its latency elapses.
Call(op, roomId, username, text) ==
  /\ ncalls < MaxCalls
  /\ ncalls' = ncalls + 1
  /\ pending' = Append(pending, [op |-> op, roomId |-> roomId,
                                 username |-> username, text |-> text])
  /\ out' = Idle
  /\ UNCHANGED <<blob, disabled, wall, sub, wins, sent, unsubscribed, last, ui>>

CallCreateRoom == \E r \in RoomIds : Call("createRoom", r, "", "")

CallCheckRoomExists == \E r \in RoomIds : Call("checkRoomExists", r, "", "")

CallSendMessage ==
  \E r \in RoomIds, u \in Usernames, t \in Texts : Call("sendMessage", r, u, t)

\* The latency of pending[i] has elapsed: createRoom runs to its return.
\* fail: setItem throws (the quota is exceeded, or the storage is disabled).
ResumeCreateRoom(i) ==
  /\ pending[i].op = "createRoom"
  /\ CanFire(pending, i)
  /\ \E fail \in BOOLEAN :
       LET p == pending[i]
           res == createRoom(blob, disabled, p.roomId, wall, fail)
       IN /\ disabled => fail
          /\ blob' = res.save.blob
          /\ out' = Event("createRoom", p.roomId, res.value, res.save, "", <<>>)
          /\ wins' = IF res.value /\ ~res.save.threw /\ wins[p.roomId] < 2
                     THEN [wins EXCEPT ![p.roomId] = @ + 1]
                     ELSE wins
          /\ last' = Written(res.save.blob)
  /\ pending' = RemoveAt(pending, i)
  /\ UNCHANGED <<disabled, wall, sub, ncalls, sent, unsubscribed, ui>>

ResumeCheckRoomExists(i) ==
  /\ pending[i].op = "checkRoomExists"
  /\ CanFire(pending, i)
  /\ LET p == pending[i]
         res == checkRoomExists(blob, disabled, p.roomId)
     IN out' = Event("checkRoomExists", p.roomId, res.value, res.save, "", <<>>)
  /\ pending' = RemoveAt(pending, i)
  /\ UNCHANGED <<blob, disabled, wall, sub, ncalls, wins, sent, unsubscribed, last, ui>>

\* sent records the message of every sendMessage that found its room, and
\* whether its setItem went through.
ResumeSendMessage(i) ==
  /\ pending[i].op = "sendMessage"
  /\ CanFire(pending, i)
  /\ \E fail \in BOOLEAN, rnd \in Randoms :
       LET p == pending[i]
           res == sendMessage(blob, disabled, p.roomId, p.username, p.text,
                              wall, rnd, fail)
       IN /\ disabled => fail
          /\ blob' = res.save.blob
          /\ out' = Event("sendMessage", p.roomId, res.value, res.save, "", <<>>)
          /\ sent' = IF res.found
                     THEN [sent EXCEPT ![p.roomId] = @ \cup
                            {[msg |-> NewMessage(wall, rnd, p.username, p.text),
                              saved |-> ~fail]}]
                     ELSE sent
          /\ last' = Written(res.save.blob)
  /\ pending' = RemoveAt(pending, i)
  /\ UNCHANGED <<disabled, wall, sub, ncalls, wins, unsubscribed, ui>>

Resume ==
  \E i \in 1..Len(pending) :
    ResumeCreateRoom(i) \/ ResumeCheckRoomExists(i) \/ ResumeSendMessage(i)

\* subscribeToMessages(roomId, callback): the initial check, then the
\* interval and the listener are set up.
Subscribe ==
  \E r \in RoomIds :
    /\ ~sub.used
    /\ LET res == checkMessages(NewSub(r), blob, disabled)
       IN /\ sub' = IF res.threw THEN sub ELSE NewSub(r)
          /\ out' = Event("subscribe", r, FALSE, NoSave(blob, res.threw), "",
                          res.calls)
          /\ last' = Delivered(res.calls)
    /\ UNCHANGED <<blob, disabled, wall, pending, ncalls, wins, sent, unsubscribed, ui>>

\* The interval timer of the subscription fires.
PollTick ==
  /\ sub.interval
  /\ LET res == checkMessages(sub, blob, disabled)
     IN /\ out' = Event("pollTick", sub.roomId, FALSE, NoSave(blob, res.threw), "",
                     res.calls)
        /\ last' = Delivered(res.calls)
  /\ UNCHANGED <<blob, disabled, wall, pending, sub, ncalls, wins, sent, unsubscribed, ui>>

\* The window dispatches a storage event; the listener runs if attached.
StorageEvent ==
  \E key \in EventKeys :
    /\ LET res == IF sub.listening
                  THEN handleStorage(sub, key, blob, disabled)
                  ELSE [threw |-> FALSE, calls |-> <<>>]
       IN /\ out' = Event("storage", sub.roomId, FALSE, NoSave(blob, res.threw), key,
                          res.calls)
          /\ last' = Delivered(res.calls)
    /\ UNCHANGED <<blob, disabled, wall, pending, sub, ncalls, wins, sent, unsubscribed, ui>>

\* The unsubscribe function is invoked (the first time or again).
Unsubscribe ==
  /\ sub.used
  /\ sub' = unsubscribe(sub)
  /\ unsubscribed' = TRUE
  /\ out' = Event("unsubscribe", sub.roomId, FALSE, NoSave(blob, FALSE), "", <<>>)
  /\ UNCHANGED <<blob, disabled, wall, pending, ncalls, wins, sent, last, ui>>

\* The wall clock advances.
Tick ==
  /\ wall < MaxWall
  /\ wall' = wall + 1
  /\ out' = Idle
  /\ UNCHANGED <<blob, disabled, pending, sub, ncalls, wins, sent, unsubscribed, last, ui>>

\* The system clock is adjusted: Date.now() is not monotonic.
ClockSetBack ==
  /\ wall > 0
  /\ wall' = wall - 1
  /\ out' = Idle
  /\ UNCHANGED <<blob, disabled, pending, sub, ncalls, wins, sent, unsubscribed, last, ui>>

Next ==
  \/ CallCreateRoom
  \/ CallCheckRoomExists
  \/ CallSendMessage
  \/ Resume
  \/ Subscribe
  \/ PollTick
  \/ StorageEvent
  \/ Unsubscribe
  \/ Tick
  \/ ClockSetBack

Spec == Init /\ [][Next]_vars

\* The same process with two users typing: what one message stores under an
\* identifier can differ from what another stores under it.
Senders == {"Alice", "Bob"}

CallSendMessageAs ==
  \E r \in RoomIds, u \in Senders, t \in Texts : Call("sendMessage", r, u, t)

NextSenders ==
  \/ CallCreateRoom
  \/ CallCheckRoomExists
  \/ CallSendMessageAs
  \/ Resume
  \/ Subscribe
  \/ Tick
  \/ ClockSetBack

SpecSenders == Init /\ [][NextSenders]_vars

SpecCorrupt == InitCorrupt /\ [][Next]_vars

\* The runs in which the deliveries are recorded in last: messages are sent
\* to the room an earlier session left and to a room that is missing, and a
\* subscription to one of them receives the lists.
InitDeliveries ==
  /\ blob = EarlierSession
  /\ disabled = FALSE
  /\ last = Recording
  /\ InitRest

ResumeSend == \E i \in 1..Len(pending) : ResumeSendMessage(i)

NextDeliveries ==
  \/ CallSendMessage
  \/ ResumeSend
  \/ Subscribe
  \/ PollTick
  \/ StorageEvent
  \/ Unsubscribe
  \/ Tick
  \/ ClockSetBack

SpecDeliveries == InitDeliveries /\ [][NextDeliveries]_vars

\* ------------------------------------------------------------------- two tabs

\* Two tabs of one origin share the storage area and nothing else: each runs
\* its own timers and its own sendMessage bodies.  A body is synchronous in
\* its tab, while the other tab can touch the storage between this tab's
\* getItem (line 8, called at line 63) and its setItem (line 18, called at
\* line 80).  A pending call carries its tab, whether its body has read the
\* storage, and the string it read.
Tabs == {1, 2}

TabCallSendMessage ==
  \E tab \in Tabs, r \in RoomIds, u \in Senders, t \in Texts :
    /\ ncalls < MaxCalls
    /\ ncalls' = ncalls + 1
    /\ pending' = Append(pending, [op |-> "sendMessage", roomId |-> r,
                                   username |-> u, text |-> t, tab |-> tab,
                                   phase |-> "timer", snapshot |-> NoBlob])
    /\ out' = Idle
    /\ UNCHANGED <<blob, disabled, wall, sub, wins, sent, unsubscribed, last, ui>>

\* The timer of pending[i] can fire and its tab is free to run the body: the
\* tab is not inside another body, and its earlier timers of no greater
\* delay have fired.
TabCanFire(p, i) ==
  \A j \in 1..Len(p) :
    (j # i /\ p[j].tab = p[i].tab) =>
      /\ p[j].phase = "timer"
      /\ j < i => Delay(p[j].op) > Delay(p[i].op)

\* Lines 62-65: the latency has elapsed, the body reads the table and
\* returns if the room is missing.
TabRead(i) ==
  /\ pending[i].phase = "timer"
  /\ TabCanFire(pending, i)
  /\ LET p == pending[i]
         read == getRooms(blob, disabled)
     IN IF ~read.threw /\ HasRoom(read.rooms, p.roomId)
        THEN /\ pending' = [pending EXCEPT ![i] = [@ EXCEPT !.phase = "read",
                                                           !.snapshot = blob]]
             /\ out' = Idle
        ELSE /\ pending' = RemoveAt(pending, i)
             /\ out' = Event("sendMessage", p.roomId, FALSE,
                             NoSave(blob, read.threw), "", <<>>)
  /\ UNCHANGED <<blob, disabled, wall, sub, ncalls, wins, sent, unsubscribed, last, ui>>

\* Lines 67-80: the message is built, put into the table that was read, and
\* that table is written back.
TabWrite(i) ==
  /\ pending[i].phase = "read"
  /\ \E fail \in BOOLEAN, rnd \in Randoms :
       LET p == pending[i]
           res == sendMessage(p.snapshot, disabled, p.roomId, p.username, p.text,
                              wall, rnd, fail)
           stored == IF res.save.failed THEN blob ELSE res.save.blob
       IN /\ disabled => fail
          /\ blob' = stored
          /\ out' = Event("sendMessage", p.roomId, res.value, res.save, "", <<>>)
          /\ sent' = [sent EXCEPT ![p.roomId] = @ \cup
                        {[msg |-> NewMessage(wall, rnd, p.username, p.text),
                          saved |-> ~fail]}]
          /\ last' = Written(stored)
  /\ pending' = RemoveAt(pending, i)
  /\ UNCHANGED <<disabled, wall, sub, ncalls, wins, unsubscribed, ui>>

TabStep == \E i \in 1..Len(pending) : TabRead(i) \/ TabWrite(i)

NextTabs ==
  \/ TabCallSendMessage
  \/ TabStep
  \/ Tick
  \/ ClockSetBack

SpecTabs == Init /\ [][NextTabs]_vars

\* ------------------------------------------------------- the user interface

\* The App of src/components/ChatRoom.tsx (lines 195-225) showing the Home
\* of src/unnamed/part_001 or the ChatRoom.  A handler runs up to its next
\* await in one step; the state it sets is rendered, and the effects of the
\* render run, before anything else of the application does.

\* What the user types: a name, a room id, a message, padded or blank.
NameInputs == {" ", "Alice"}
RoomInputs == {" ", " r1 ", "r2"}
TextInputs == {" ", " hi "}

\* String.prototype.trim on the strings typed.
Trim(str) ==
  CASE str = " " -> ""
    [] str = " r1 " -> "r1"
    [] str = " hi " -> "hi"
    [] OTHER -> str

\* A call of the service made by a component: from names the component,
\* inst the ChatRoom instance.
UiCall(op, roomId, username, text, from) ==
  [op |-> op, roomId |-> roomId, username |-> username, text |-> text,
   from |-> from, inst |-> ui.mounts]

\* The loop condition of handleCreateRoom with one more round allowed.
RetryOnceMore(exists, attempts) == exists /\ attempts <= 3

\* part_001 line 39: while (exists && attempts < 3)
Retry(exists, attempts) == exists /\ attempts < 3

\* App.handleJoinRoom(roomId, user), lines 200-204.
handleJoinRoom(u, roomId, user) ==
  [u EXCEPT !.view = "CHAT", !.currentRoomId = roomId, !.username = user]

\* App.handleLeaveRoom(), lines 206-210.
handleLeaveRoom(u) == [u EXCEPT !.view = "HOME", !.currentRoomId = ""]

\* An effect cleanup that leaves the subscription running.
ChatRoomCleanupNothing(c) == c

\* ChatRoom.tsx line 26: return () => unsubscribe()
ChatRoomCleanup(c) == unsubscribe(c)

\* The list the effect of ChatRoom (lines 21-27) hands to setMessages when
\* it subscribes: the render of App state u shows a ChatRoom that was not
\* there, or one with another roomId.
Resubscribes(u) ==
  u.view = "CHAT" /\ (ui.view = "HOME" \/ u.currentRoomId # ui.currentRoomId)

EffectCalls(u) ==
  IF Resubscribes(u)
  THEN checkMessages(NewSub(u.currentRoomId), blob', disabled).calls
  ELSE <<>>

\* React renders App state u: a ChatRoom that goes, or whose roomId changes,
\* runs its cleanup; a ChatRoom that comes, or whose roomId changed, runs its
\* effect and subscribes; a Home that comes starts from its initial state.
Render(u) ==
  LET leaves == ui.view = "CHAT" /\ (u.view = "HOME" \/ Resubscribes(u))
      cleaned == IF leaves THEN ChatRoomCleanup(sub) ELSE sub
      fresh == u.view # ui.view
  IN /\ sub' = IF Resubscribes(u) THEN NewSub(u.currentRoomId) ELSE cleaned
     /\ ui' = [u EXCEPT
                 !.closed = IF Resubscribes(u) /\ cleaned.used
                            THEN @ \cup {cleaned} ELSE @,
                 !.mounts = IF fresh /\ u.view = "CHAT" THEN @ + 1 ELSE @,
                 !.sending = IF fresh THEN FALSE ELSE @,
                 !.home = IF fresh /\ u.view = "HOME" THEN HomeInit ELSE @]

\* The user clicks 'Create New Room' (part_001 lines 26-37): the name is
\* validated, a candidate id is drawn and checked.
HomeClickCreate ==
  /\ ui.view = "HOME"
  /\ ~ui.home.loading
  /\ ui.clicks < MaxClicks
  /\ \E name \in NameInputs, id \in RoomIds :
       IF Trim(name) = ""
       THEN /\ ui' = [ui EXCEPT !.clicks = @ + 1,
                                !.home = [HomeInit EXCEPT !.error = "username"]]
            /\ pending' = pending
       ELSE /\ ui' = [ui EXCEPT !.clicks = @ + 1,
                                !.home = [HomeInit EXCEPT !.pc = "check",
                                            !.loading = TRUE, !.username = name,
                                            !.newRoomId = id, !.checks = 1]]
            /\ pending' = Append(pending,
                                 UiCall("checkRoomExists", id, "", "", "home"))
  /\ out' = Idle
  /\ UNCHANGED <<blob, disabled, wall, sub, ncalls, wins, sent, unsubscribed, last>>

\* The user submits the join form (part_001 lines 64-77).
HomeSubmitJoin ==
  /\ ui.view = "HOME"
  /\ ~ui.home.loading
  /\ ui.clicks < MaxClicks
  /\ \E name \in NameInputs, room \in RoomInputs :
       IF Trim(name) = ""
       THEN /\ ui' = [ui EXCEPT !.clicks = @ + 1,
                                !.home = [HomeInit EXCEPT !.error = "username"]]
            /\ pending' = pending
       ELSE IF Trim(room) = ""
       THEN /\ ui' = [ui EXCEPT !.clicks = @ + 1,
                                !.home = [HomeInit EXCEPT !.error = "room id"]]
            /\ pending' = pending
       ELSE /\ ui' = [ui EXCEPT !.clicks = @ + 1,
                                !.home = [HomeInit EXCEPT !.pc = "join",
                                            !.loading = TRUE, !.username = name,
                                            !.joinRoomId = room]]
            /\ pending' = Append(pending,
                                 UiCall("checkRoomExists", Trim(room), "", "", "home"))
  /\ out' = Idle
  /\ UNCHANGED <<blob, disabled, wall, sub, ncalls, wins, sent, unsubscribed, last>>

\* A checkRoomExists awaited by handleCreateRoom returns (lines 37-49): the
\* loop draws and checks another candidate, or the handler gives up, or it
\* calls createRoom.
CreateCheckReturns(i) ==
  /\ pending[i].from = "home"
  /\ pending[i].op = "checkRoomExists"
  /\ ui.home.pc \in {"check", "retry"}
  /\ CanFire(pending, i)
  /\ LET p == pending[i]
         res == checkRoomExists(blob, disabled, p.roomId)
         h == [ui.home EXCEPT !.exists = res.value, !.checked = p.roomId,
                              !.attempts = IF ui.home.pc = "retry" THEN @ + 1 ELSE @]
         rest == RemoveAt(pending, i)
     IN /\ out' = Event("checkRoomExists", p.roomId, res.value, res.save, "", <<>>)
        /\ IF Retry(h.exists, h.attempts)
           THEN \E id \in RoomIds :
                  /\ ui' = [ui EXCEPT !.home = [h EXCEPT !.pc = "retry",
                                                  !.newRoomId = id, !.checks = @ + 1]]
                  /\ pending' = Append(rest,
                                       UiCall("checkRoomExists", id, "", "", "home"))
           ELSE IF h.exists
           THEN /\ ui' = [ui EXCEPT !.home = [h EXCEPT !.pc = "idle",
                                                !.loading = FALSE, !.error = "error"]]
                /\ pending' = rest
           ELSE /\ ui' = [ui EXCEPT !.home = [h EXCEPT !.pc = "create",
                                                !.created = h.newRoomId]]
                /\ pending' = Append(rest,
                                     UiCall("createRoom", h.newRoomId, "", "", "home"))
  /\ UNCHANGED <<blob, disabled, wall, sub, ncalls, wins, sent, unsubscribed, last>>

\* The createRoom awaited by handleCreateRoom returns (lines 49-61).
CreateReturns(i) ==
  /\ pending[i].from = "home"
  /\ pending[i].op = "createRoom"
  /\ CanFire(pending, i)
  /\ \E fail \in BOOLEAN :
       LET p == pending[i]
           res == createRoom(blob, disabled, p.roomId, wall, fail)
           h == [ui.home EXCEPT !.pc = "idle", !.loading = FALSE,
                                !.success = res.value,
                                !.joined = IF res.value THEN @ ELSE "",
                                !.error = IF res.value THEN @ ELSE "failed"]
           u == IF res.value
                THEN handleJoinRoom([ui EXCEPT !.home = [h EXCEPT !.joined = h.newRoomId]],
                                    h.newRoomId, h.username)
                ELSE [ui EXCEPT !.home = h]
       IN /\ disabled => fail
          /\ blob' = res.save.blob
          /\ Render(u)
          /\ out' = Event("createRoom", p.roomId, res.value, res.save, "",
                          EffectCalls(u))
  /\ pending' = RemoveAt(pending, i)
  /\ UNCHANGED <<disabled, wall, ncalls, wins, sent, unsubscribed, last>>

\* The checkRoomExists awaited by handleJoinRoom returns (lines 77-87).
JoinCheckReturns(i) ==
  /\ pending[i].from = "home"
  /\ pending[i].op = "checkRoomExists"
  /\ ui.home.pc = "join"
  /\ CanFire(pending, i)
  /\ LET p == pending[i]
         res == checkRoomExists(blob, disabled, p.roomId)
         h == [ui.home EXCEPT !.pc = "idle", !.loading = FALSE,
                              !.exists = res.value, !.checked = p.roomId,
                              !.joined = IF res.value THEN Trim(ui.home.joinRoomId) ELSE "",
                              !.error = IF res.value THEN @ ELSE "not found"]
         u == IF res.value
              THEN handleJoinRoom([ui EXCEPT !.home = h], Trim(h.joinRoomId),
                                  h.username)
              ELSE [ui EXCEPT !.home = h]
     IN /\ blob' = blob
        /\ Render(u)
        /\ out' = Event("checkRoomExists", p.roomId, res.value, res.save, "",
                        EffectCalls(u))
  /\ pending' = RemoveAt(pending, i)
  /\ UNCHANGED <<disabled, wall, ncalls, wins, sent, unsubscribed, last>>

HomeReturns ==
  \E i \in 1..Len(pending) :
    CreateCheckReturns(i) \/ CreateReturns(i) \/ JoinCheckReturns(i)

\* The user sends a message (ChatRoom.tsx lines 34-40).
ChatSend ==
  /\ ui.view = "CHAT"
  /\ ~ui.sending
  /\ ui.clicks < MaxClicks
  /\ \E text \in TextInputs :
       /\ Trim(text) # ""
       /\ pending' = Append(pending, UiCall("sendMessage", ui.currentRoomId,
                                            ui.username, Trim(text), "chat"))
  /\ ui' = [ui EXCEPT !.clicks = @ + 1, !.sending = TRUE]
  /\ out' = Idle
  /\ UNCHANGED <<blob, disabled, wall, sub, ncalls, wins, sent, unsubscribed, last>>

\* The sendMessage awaited by handleSend returns (lines 40-46); setSending
\* reaches the ChatRoom instance that sent, if it is still there.
ChatSendReturns ==
  \E i \in 1..Len(pending) :
    /\ pending[i].from = "chat"
    /\ CanFire(pending, i)
    /\ \E fail \in BOOLEAN, rnd \in Randoms :
         LET p == pending[i]
             res == sendMessage(blob, disabled, p.roomId, p.username, p.text,
                                wall, rnd, fail)
         IN /\ disabled => fail
            /\ blob' = res.save.blob
            /\ out' = Event("sendMessage", p.roomId, res.value, res.save, "", <<>>)
            /\ sent' = IF res.found
                       THEN [sent EXCEPT ![p.roomId] = @ \cup
                              {[msg |-> NewMessage(wall, rnd, p.username, p.text),
                                saved |-> ~fail]}]
                       ELSE sent
            /\ ui' = IF ui.view = "CHAT" /\ p.inst = ui.mounts
                     THEN [ui EXCEPT !.sending = FALSE] ELSE ui
    /\ pending' = RemoveAt(pending, i)
    /\ UNCHANGED <<disabled, wall, sub, ncalls, wins, unsubscribed, last>>

\* The user leaves the room (ChatRoom.tsx line 82, onLeave).
ChatLeave ==
  /\ ui.view = "CHAT"
  /\ ui.clicks < MaxClicks
  /\ blob' = blob
  /\ Render(handleLeaveRoom([ui EXCEPT !.clicks = @ + 1]))
  /\ out' = Idle
  /\ UNCHANGED <<disabled, wall, pending, ncalls, wins, sent, unsubscribed, last>>

InitUI ==
  /\ blob \in {NoBlob, EarlierSession, BothRooms}
  /\ disabled = FALSE
  /\ last = NoLast
  /\ InitRest

NextUI ==
  \/ HomeClickCreate
  \/ HomeSubmitJoin
  \/ HomeReturns
  \/ ChatSend
  \/ ChatSendReturns
  \/ ChatLeave
  \/ Tick
  \/ ClockSetBack

SpecUI == InitUI /\ [][NextUI]_vars

\* ------------------------------------------------------------------ properties

SeqToSet(list) == {list[i] : i \in 1..Len(list)}

\* C1: of the createRoom(r) calls on one storage area only one returns
\* true; a call that reports Collision returns false without throwing and
\* leaves the stored table, so the room's createdAt and messages, as it was.
C1_CreateTwiceOneSuccess ==
  /\ [](\A r \in RoomIds : wins[r] <= 1)
  /\ [][out'.kind = "createRoom" /\ ~out'.value
          => ~out'.threw /\ blob' = blob]_vars

C3_TickDeliversAllSent ==
  out.kind = "pollTick" =>
    \A i \in 1..Len(out.calls) :
      SeqToSet(out.calls[i]) = {e.msg : e \in sent[out.roomId]}

\* C3 amended: the list a poll tick delivers holds only sent messages whose
\* write succeeded, and for every such message a message under its id.
C3_TickDeliversAllSaved ==
  out.kind = "pollTick" =>
    \A i \in 1..Len(out.calls) :
      LET saved == {e.msg : e \in {x \in sent[out.roomId] : x.saved}}
      IN /\ SeqToSet(out.calls[i]) \subseteq saved
         /\ \A m \in saved : \E k \in 1..Len(out.calls[i]) : out.calls[i][k].id = m.id

\* A poll tick delivers a message after two sends, one of which was not saved.
C3_Witness ==
  /\ out.kind = "pollTick"
  /\ Len(out.calls) = 1
  /\ Len(out.calls[1]) = 1
  /\ \E e \in sent[out.roomId] : ~e.saved

\* C4: every list handed to the callback is sorted non-decreasing by
\* timestamp.
C4_DeliveredSorted ==
  \A i \in 1..Len(out.calls) :
    \A j, k \in 1..Len(out.calls[i]) :
      j < k => out.calls[i][j].timestamp <= out.calls[i][k].timestamp

\* A delivered list of two messages that the stored mapping holds in the
\* other order: the later insertion has the smaller timestamp.
C4_Witness ==
  /\ out.calls # <<>>
  /\ Len(out.calls[1]) = 2
  /\ out.calls[1][1].timestamp < out.calls[1][2].timestamp
  /\ HasRoom(RootTable(blob), out.roomId)
  /\ RootTable(blob)[out.roomId].messages[1] = out.calls[1][2]

\* C5: once unsubscribe has been invoked the subscription stays stopped
\* (flag off, interval cleared, listener detached, whatever is invoked
\* later) and no step hands a list to the callback.
C5_StoppedForGood ==
  /\ [](unsubscribed => ~sub.active /\ ~sub.interval /\ ~sub.listening)
  /\ [][unsubscribed => out'.calls = <<>>]_vars

\* After unsubscribe, a message was saved in the subscribed room and a
\* storage event for the owned key has been dispatched.
C5_Witness ==
  /\ unsubscribed
  /\ out.kind = "storage"
  /\ out.key = STORAGE_KEY
  /\ \E e \in sent[sub.roomId] : e.saved

\* C6: subscribeToMessages hands the callback one list before it returns:
\* the messages of the room in the Root Table, none when the room is absent.
C6_InitialDelivery ==
  out.kind = "subscribe" =>
    /\ ~out.threw
    /\ Len(out.calls) = 1
    /\ IF HasRoom(RootTable(blob), out.roomId)
       THEN /\ SeqToSet(out.calls[1]) = SeqToSet(RootTable(blob)[out.roomId].messages)
            /\ Len(out.calls[1]) = Len(RootTable(blob)[out.roomId].messages)
       ELSE out.calls[1] = <<>>

\* subscribeToMessages has just returned for a room that is not in the table.
C6_Witness ==
  /\ out.kind = "subscribe"
  /\ ~HasRoom(RootTable(blob), out.roomId)
  /\ out.calls = << <<>> >>

\* C7: when createRoom returns true the stored table holds the room with no
\* messages; when it reports Collision the stored blob is unchanged.
C7_SuccessIsPersisted ==
  /\ [](out.kind = "createRoom" /\ out.value =>
          /\ HasRoom(RootTable(blob), out.roomId)
          /\ RootTable(blob)[out.roomId].messages = <<>>)
  /\ [][out'.kind = "createRoom" /\ ~out'.value => blob' = blob]_vars

\* C8: when setItem throws in createRoom or sendMessage the stored blob
\* stays as it was, setItem is called once, and no error reaches the caller.
C8_FailedWriteAbandoned ==
  [][out'.kind \in {"createRoom", "sendMessage"} /\ out'.failed
       => blob' = blob /\ out'.setItems = 1 /\ ~out'.threw]_vars

\* A sendMessage whose setItem threw has returned; the room is still stored.
C8_Witness ==
  /\ out.kind = "sendMessage"
  /\ out.failed
  /\ HasRoom(RootTable(blob), out.roomId)

Fired(i) ==
  /\ i \in 1..Len(pending)
  /\ pending' = RemoveAt(pending, i)

Writes(op) == op \in {"createRoom", "sendMessage"}

\* C10 as stated: the bodies of createRoom and sendMessage run in the order
\* of the calls: none runs while an earlier create or send is pending.
C10_WritesInCallOrder ==
  [][Len(pending') < Len(pending) =>
       \E i \in 1..Len(pending) :
         /\ Fired(i)
         /\ Writes(pending[i].op) =>
              \A j \in 1..(i - 1) : ~Writes(pending[j].op)]_vars

\* C10 amended: a body runs before that of an earlier call only when it is
\* a sendMessage and the earlier call a createRoom.
C10_OnlySendOvertakesCreate ==
  [][Len(pending') < Len(pending) =>
       \E i \in 1..Len(pending) :
         /\ Fired(i)
         /\ Writes(pending[i].op) =>
              \A j \in 1..(i - 1) :
                Writes(pending[j].op) =>
                  (pending[i].op = "sendMessage" /\ pending[j].op = "createRoom")]_vars

\* A sendMessage has run and saved its message while a createRoom called
\* before it is still pending.
C10_Witness ==
  /\ out.kind = "sendMessage"
  /\ out.setItems = 1
  /\ \E j \in 1..Len(pending) : pending[j].op = "createRoom"

\* C13: a delivery that follows another one, with no change of the stored
\* table in between, hands the callback the same list, in the same order.
C13_RepeatedDelivery ==
  [][\A k \in 1..Len(out'.calls) : last.valid => out'.calls[k] = last.list]_vars

\* A non-empty list has been delivered twice from the same table.
C13_Witness ==
  /\ out.calls # <<>>
  /\ last.repeated
  /\ Len(last.list) >= 1

\* C14: an ACTIVE subscription answers a storage event for the owned key
\* with one delivery of the room's current messages, and a storage event for
\* another key or without a key with no delivery.
C14_OnlyOwnedKey ==
  out.kind = "storage" /\ sub.active =>
    IF out.key = STORAGE_KEY
    THEN /\ Len(out.calls) = 1
         /\ IF HasRoom(RootTable(blob), sub.roomId)
            THEN /\ SeqToSet(out.calls[1])
                      = SeqToSet(RootTable(blob)[sub.roomId].messages)
                 /\ Len(out.calls[1]) = Len(RootTable(blob)[sub.roomId].messages)
            ELSE out.calls[1] = <<>>
    ELSE out.calls = <<>>

\* A storage event without a key reached an ACTIVE subscription whose room
\* holds a message.
C14_Witness ==
  /\ out.kind = "storage"
  /\ out.key = "null"
  /\ sub.active
  /\ HasRoom(RootTable(blob), sub.roomId)
  /\ RootTable(blob)[sub.roomId].messages # <<>>

\* The messages of room r in the table blob b encodes.
Messages(b, r) ==
  IF HasRoom(RootTable(b), r) THEN RootTable(b)[r].messages ELSE <<>>

Ids(msgs) == {msgs[k].id : k \in 1..Len(msgs)}

\* Room r is in both tables with the same createdAt, and every other room
\* is the same in both.
RestUnchanged(b, b2, r) ==
  /\ DOMAIN RootTable(b2) = DOMAIN RootTable(b)
  /\ RootTable(b2)[r].createdAt = RootTable(b)[r].createdAt
  /\ \A q \in DOMAIN RootTable(b) \ {r} : RootTable(b2)[q] = RootTable(b)[q]

\* C15 as stated: a sendMessage on an existing room adds one message, under
\* an identifier the room did not use, with the username and text supplied;
\* the other messages, the room's createdAt and the other rooms stay.
C15_SendAddsOneNew ==
  [][\A i \in 1..Len(pending) :
       (/\ Fired(i)
        /\ pending[i].op = "sendMessage"
        /\ HasRoom(RootTable(blob), pending[i].roomId))
       => LET r == pending[i].roomId
              old == Messages(blob, r)
              new == Messages(blob', r)
          IN /\ Len(new) = Len(old) + 1
             /\ SubSeq(new, 1, Len(old)) = old
             /\ new[Len(new)].id \notin Ids(old)
             /\ new[Len(new)].username = pending[i].username
             /\ new[Len(new)].text = pending[i].text
             /\ RestUnchanged(blob, blob', r)]_vars

\* C15 amended: a sendMessage on an existing room whose write succeeds
\* leaves the room with one message under the identifier it generated,
\* holding the username and text supplied; that message is added, or, when
\* the identifier is in use, takes the place of the one stored under it.
\* Messages under other identifiers, the room's createdAt and the other
\* rooms stay.  A failed write stores nothing.
C15_SendStoresUnderItsId ==
  [][\A i \in 1..Len(pending) :
       (/\ Fired(i)
        /\ pending[i].op = "sendMessage"
        /\ HasRoom(RootTable(blob), pending[i].roomId))
       => IF out'.failed THEN blob' = blob
          ELSE \E rnd \in Randoms :
            LET r == pending[i].roomId
                id == MessageId(wall, rnd)
                old == Messages(blob, r)
                new == Messages(blob', r)
                mine == {k \in 1..Len(new) : new[k].id = id}
            IN /\ Cardinality(mine) = 1
               /\ \A k \in mine :
                    new[k] = [id |-> id, username |-> pending[i].username,
                              text |-> pending[i].text, timestamp |-> wall]
               /\ {m \in SeqToSet(new) : m.id # id}
                    = {m \in SeqToSet(old) : m.id # id}
               /\ Len(new) = Len(old) + (IF id \in Ids(old) THEN 0 ELSE 1)
               /\ RestUnchanged(blob, blob', r)]_vars

\* A sendMessage has just replaced the message another user had stored
\* under the same identifier.
C15_Witness ==
  /\ out.kind = "sendMessage"
  /\ out.setItems = 1
  /\ ~out.failed
  /\ Len(Messages(blob, out.roomId)) = 1
  /\ \E e1, e2 \in sent[out.roomId] :
       /\ e1.saved /\ e2.saved
       /\ e1.msg.id = e2.msg.id
       /\ e1.msg.username # e2.msg.username

\* C12 as stated: no step takes anything from the stored table; a room in
\* it stays with its createdAt, a message in it stays with its id, username,
\* text and timestamp.
C12_TableOnlyGrows ==
  [][\A r \in DOMAIN RootTable(blob) :
       /\ HasRoom(RootTable(blob'), r)
       /\ RootTable(blob')[r].createdAt = RootTable(blob)[r].createdAt
       /\ SeqToSet(Messages(blob, r)) \subseteq SeqToSet(Messages(blob', r))]_vars

\* C12 amended: in one process, a room in the stored table stays with its
\* createdAt and a message identifier in it stays; the message under an
\* identifier changes only when a sendMessage to that room completes with a
\* successful write and stores its own username and text under it.
C12_NothingDeleted ==
  [][\A r \in DOMAIN RootTable(blob) :
       /\ HasRoom(RootTable(blob'), r)
       /\ RootTable(blob')[r].createdAt = RootTable(blob)[r].createdAt
       /\ Ids(Messages(blob, r)) \subseteq Ids(Messages(blob', r))
       /\ \A m \in SeqToSet(Messages(blob, r)) :
            \/ m \in SeqToSet(Messages(blob', r))
            \/ /\ out'.kind = "sendMessage"
               /\ out'.roomId = r
               /\ out'.setItems = 1 /\ ~out'.failed
               /\ \E i \in 1..Len(pending), m2 \in SeqToSet(Messages(blob', r)) :
                    /\ Fired(i)
                    /\ pending[i].op = "sendMessage"
                    /\ m2.id = m.id
                    /\ m2.username = pending[i].username
                    /\ m2.text = pending[i].text]_vars

\* createRoom has just reported Collision on a room that holds a message.
C12_Witness ==
  /\ out.kind = "createRoom"
  /\ ~out.value
  /\ Messages(blob, out.roomId) # <<>>

\* A sendMessage to room r is pending in p, next to p[i] when i is not 0.
SendPending(p, r, i) ==
  \E j \in 1..Len(p) : j # i /\ p[j].op = "sendMessage" /\ p[j].roomId = r

\* Every sendMessage to r has completed, and none met a write failure.
AllSentSaved(r) ==
  /\ ~SendPending(pending, r, 0)
  /\ \A e \in sent[r] : e.saved

\* C16 as stated: once the sendMessage calls to a room have completed
\* without a write failure the room holds one message per call.
C16_OneMessagePerCall ==
  \A r \in RoomIds :
    AllSentSaved(r) => Len(Messages(blob, r)) = Cardinality(sent[r])

\* C16 amended: once the sendMessage calls to a room have completed without
\* a write failure the room holds one message per identifier generated, each
\* the message of one of the calls; and a sendMessage that completes while
\* another one to the same room is pending removes no identifier.
C16_OneMessagePerIdentifier ==
  /\ [](\A r \in RoomIds :
          AllSentSaved(r) =>
            /\ Ids(Messages(blob, r)) = {e.msg.id : e \in sent[r]}
            /\ Len(Messages(blob, r)) = Cardinality(Ids(Messages(blob, r)))
            /\ SeqToSet(Messages(blob, r)) \subseteq {e.msg : e \in sent[r]})
  /\ [][\A i \in 1..Len(pending) :
          (/\ Fired(i)
           /\ pending[i].op = "sendMessage"
           /\ SendPending(pending, pending[i].roomId, i))
          => Ids(Messages(blob, pending[i].roomId))
               \subseteq Ids(Messages(blob', pending[i].roomId))]_vars

\* One of two overlapping sendMessage calls to a room has stored its message
\* while the other one is pending.
C16_Witness ==
  /\ out.kind = "sendMessage"
  /\ out.setItems = 1
  /\ ~out.failed
  /\ SendPending(pending, out.roomId, 0)
  /\ Len(Messages(blob, out.roomId)) = 1

\* C11: two tabs send to one room at once, each from the table it read.
\* The write of a tab leaves the room with the messages of the table that
\* tab read plus its own message: what the other tab stored after that read
\* is gone, and C11_Witness is the state the claim says exists.
C11_StaleWriteOverwrites ==
  [][\A i \in 1..Len(pending) :
       (/\ Fired(i)
        /\ pending[i].phase = "read"
        /\ ~out'.failed)
       => LET r == pending[i].roomId
              snap == Messages(pending[i].snapshot, r)
              new == Messages(blob', r)
          IN /\ Ids(snap) \subseteq Ids(new)
             /\ Len(new) <= Len(snap) + 1
             /\ \E k \in 1..Len(new) :
                  /\ new[k].username = pending[i].username
                  /\ new[k].text = pending[i].text
                  /\ new[k].timestamp = wall
                  /\ Ids(new) \ {new[k].id} \subseteq Ids(snap)]_vars

\* Both tabs' sendMessage calls have completed with a successful write and
\* different identifiers, and the room holds one message.
C11_Witness ==
  /\ pending = <<>>
  /\ \E r \in RoomIds :
       /\ Len(Messages(blob, r)) = 1
       /\ \E e1, e2 \in sent[r] :
            e1.saved /\ e2.saved /\ e1.msg.id # e2.msg.id

\* C17: a run of Home.handleCreateRoom makes at most four checkRoomExists
\* calls; it calls createRoom only with the candidate it checked last and
\* only when that check returned false, and otherwise ends with an error;
\* it calls onJoinRoom only with that id and only after createRoom
\* returned true.
C17_CreateRoomProtocol ==
  LET h == ui.home
  IN /\ h.checks <= 4
     /\ h.created # "" => (~h.exists /\ h.created = h.checked)
     /\ \A j \in 1..Len(pending) :
          (pending[j].from = "home" /\ pending[j].op = "createRoom")
            => (~h.exists /\ pending[j].roomId = h.checked)
     /\ (h.checks >= 1 /\ h.pc = "idle" /\ h.exists)
          => (h.created = "" /\ h.error = "error" /\ ui.view = "HOME")
     /\ (h.checks >= 1 /\ ui.view = "CHAT")
          => (h.success /\ h.joined = h.checked /\ ui.currentRoomId = h.checked)

\* handleCreateRoom has given up after four candidates that all exist.
C17_Witness ==
  /\ ui.home.checks = 4
  /\ ui.home.pc = "idle"
  /\ ui.home.exists
  /\ ui.home.error = "error"

\* C18: while the view is CHAT the subscription of the ChatRoom is ACTIVE
\* and on the current room; in the HOME view it is stopped; and the
\* subscription of every ChatRoom that is gone is stopped: flag off, interval
\* cleared, listener detached.
C18_OneActiveSubscription ==
  /\ ui.view = "CHAT" =>
       /\ sub.used /\ sub.active /\ sub.interval /\ sub.listening
       /\ sub.roomId = ui.currentRoomId
  /\ ui.view = "HOME" => (~sub.active /\ ~sub.interval /\ ~sub.listening)
  /\ \A c \in ui.closed : ~c.active /\ ~c.interval /\ ~c.listening

\* The user is in a room for the second time: the subscription of the first
\* ChatRoom is behind.
C18_Witness ==
  /\ ui.view = "CHAT"
  /\ ui.closed # {}
  /\ sub.active

\* C19: in the CHAT view the current room has an entry in the stored table,
\* and no sendMessage of the chat view returns at the check for a missing
\* room.
C19_ChatRoomExists ==
  /\ ui.view = "CHAT" => HasRoom(RootTable(blob), ui.currentRoomId)
  /\ (out.kind = "sendMessage" /\ ui.clicks > 0) => out.setItems = 1

====
